---- MODULE Spec2Model ----
(***************************************************************************)
(* A model of the MPSC channel of src/src/lib.rs: one Shared state (a      *)
(* Mutex around Inner {queue, senders} plus a Condvar), any number of      *)
(* Sender handles and one Receiver with a private buffer.                  *)
(*                                                                         *)
(* Every Sender handle is driven by one thread that performs one           *)
(* operation at a time (send, clone, drop); the Receiver is driven by one  *)
(* thread (recv takes &mut self).  Each operation is split at the places   *)
(* where another thread can interleave: acquiring the mutex, the work      *)
(* done under it up to its release (no other thread can touch the shared   *)
(* state in between), and the notify issued after the release.             *)
(* Values are tagged <<h, k>>: the k-th value sent through handle h.       *)
(* No thread panics while it holds the mutex, so lock().unwrap() never     *)
(* meets a poisoned mutex and is modelled as the plain acquisition.        *)
(***************************************************************************)
EXTENDS Integers, Sequences, FiniteSets, Bags, TLC

\* ------------------------------------------------------------------ bounds
\* Sender handles that can ever exist (the original plus its clones).
MaxHandles == 3
\* send calls over the whole run.
MaxSends == 2
\* recv calls that return None before the Receiver stops calling recv.
MaxNones == 2

VARIABLES
    queue,       \* Inner.queue: values pushed and not yet taken by the Receiver
    senders,     \* Inner.senders: the producer count
    lock,        \* Shared.inner's mutex: the set of threads holding it
    buffer,      \* Receiver.buffer
    rpc,         \* where the Receiver's thread is
    spc,         \* spc[h]: where the thread driving Sender handle h is
    t,           \* t[h]: the argument of the send in progress on handle h
    was_last,    \* was_last[h]: the local of the drop in progress on handle h
    appended,    \* history: every value pushed, in push order
    results,     \* history: what every completed recv returned, in order
    callPending, \* history: the oldest pending value when the current recv began
    waited,      \* history: whether the current recv has waited on the Condvar
    orphaned,    \* history: whether a value was pushed after the Receiver's drop
    sendNotifies, \* history: notify_one calls issued by send
    closeNotifies \* history: notify_one calls issued by drop

vars == <<queue, senders, lock, buffer, rpc, spc, t, was_last,
          appended, results, callPending, waited, orphaned,
          sendNotifies, closeNotifies>>

Handles == 1..MaxHandles

\* Option::None, and the absence of a value in a local.
None == <<>>

\* The k-th value sent through handle h.
Val(h, k) == <<h, k>>

\* Thread identities, as holders of the mutex.
Rx == <<"rx", 0>>

Tx(h) == <<"tx", h>>

RECURSIVE CountFrom(_, _)
\* How many values of seq s were sent through handle h.
CountFrom(s, h) ==
    IF s = <<>> THEN 0
    ELSE (IF Head(s)[1] = h THEN 1 ELSE 0) + CountFrom(Tail(s), h)

\* The values returned by recv so far, in order (the Some results).
Received == SelectSeq(results, LAMBDA r : r # None)

\* How many recv calls have returned None.
NoneCount == Len(results) - Len(Received)

\* send calls begun so far.
SendsBegun == Len(appended) + Cardinality({h \in Handles : t[h] # None})

\* ------------------------------------------------- the code's primitives
\* VecDeque::push_back (send)
PushFront(q, v) == <<v>> \o q

PushUnlessReceiverGone(q, v) == IF rpc = "dropped" THEN q ELSE Append(q, v)

PushBack(q, v) == Append(q, v)

\* VecDeque::pop_front: the value it returns and what it leaves behind.
Back(q) == q[Len(q)]

Front(q) == Head(q)

Unpopped(q) == q

Rest(q) == Tail(q)

\* inner.senders += 1 (clone)
NoIncrement(n) == n

Increment(n) == n + 1

\* inner.senders -= 1 (drop); a negative result stands for the usize
\* underflow (a panic in a debug build, a wrap to usize::MAX in release).
DecrementTwice(n) == n - 2

Decrement(n) == n - 1

\* let was_last = inner.senders == 0
LastOrNextToLast(n) == n <= 1

NeverLast(n) == FALSE

WasLast(n) == n = 0

\* the guard of the arm `None if inner.senders == 0`
ClosedWhenOne(n) == n <= 1

NeverClosed(n) == FALSE

NoSenders(n) == n = 0

\* std::mem::swap(&mut self.buffer, &mut inner.queue): the new buffer and
\* the new queue, from the buffer and the queue before the swap.
SwapLosesRest(b, q) == b

SwappedBuffer(b, q) == q

SwapKeepsQueue(b, q) == q

SwappedQueue(b, q) == b

\* Condvar::notify_one: the Receiver is the only thread that ever waits;
\* it is woken if it is parked, and the notification is lost otherwise.
NotifyNobody(pc) == pc

NotifyOne(pc) == IF pc = "parked" THEN "woken" ELSE pc

\* Condvar::wait(guard): the mutex as the wait leaves it while the thread
\* is parked.
WaitKeepsLock(l) == l

WaitUnlock(l) == l \ {Rx}

\* ------------------------------------------------------------------ init
\* channel(): an empty queue, senders = 1, one Sender and one Receiver.
Init ==
    /\ queue = <<>>
    /\ senders = 1
    /\ lock = {}
    /\ buffer = <<>>
    /\ rpc = "idle"
    /\ spc = [h \in Handles |-> IF h = 1 THEN "idle" ELSE "unborn"]
    /\ t = [h \in Handles |-> None]
    /\ was_last = [h \in Handles |-> FALSE]
    /\ appended = <<>>
    /\ results = <<>>
    /\ callPending = None
    /\ waited = FALSE
    /\ orphaned = FALSE
    /\ sendNotifies = 0
    /\ closeNotifies = 0

rxVars == <<buffer, rpc, results, callPending, waited>>

notifyCounts == <<sendNotifies, closeNotifies>>

\* ---------------------------------------------------------- Sender::send
SendCall(h) ==
    /\ spc[h] = "idle"
    /\ SendsBegun < MaxSends
    /\ spc' = [spc EXCEPT ![h] = "send_lock"]
    /\ t' = [t EXCEPT ![h] = Val(h, CountFrom(appended, h) + 1)]
    /\ UNCHANGED <<queue, senders, lock, was_last, appended, rxVars, orphaned, notifyCounts>>

\* A send that goes on to the push without taking the mutex.
SendWithoutLock(h) ==
    /\ spc[h] = "send_lock"
    /\ spc' = [spc EXCEPT ![h] = "send_push"]
    /\ UNCHANGED <<queue, senders, lock, t, was_last, appended, rxVars,
                   orphaned, notifyCounts>>

\* let mut inner = self.shared.inner.lock().unwrap();
SendLock(h) ==
    /\ spc[h] = "send_lock"
    /\ lock = {}
    /\ lock' = {Tx(h)}
    /\ spc' = [spc EXCEPT ![h] = "send_push"]
    /\ UNCHANGED <<queue, senders, t, was_last, appended, rxVars, orphaned, notifyCounts>>

\* A push that leaves out drop(inner): the guard lives on to the end of send.
SendPushKeepsLock(h) ==
    /\ spc[h] = "send_push"
    /\ queue' = PushBack(queue, t[h])
    /\ appended' = Append(appended, t[h])
    /\ t' = [t EXCEPT ![h] = None]
    /\ spc' = [spc EXCEPT ![h] = "send_notify"]
    /\ orphaned' = (orphaned \/ rpc = "dropped")
    /\ UNCHANGED <<senders, lock, was_last, rxVars, notifyCounts>>

\* inner.queue.push_back(t); drop(inner);
SendPush(h) ==
    /\ spc[h] = "send_push"
    /\ queue' = PushBack(queue, t[h])
    /\ appended' = Append(appended, t[h])
    /\ t' = [t EXCEPT ![h] = None]
    /\ lock' = lock \ {Tx(h)}
    /\ spc' = [spc EXCEPT ![h] = "send_notify"]
    /\ orphaned' = (orphaned \/ rpc = "dropped")
    /\ UNCHANGED <<senders, was_last, rxVars, notifyCounts>>

SendNotify(h) ==
    /\ spc[h] = "send_notify"
    /\ rpc' = NotifyOne(rpc)
    /\ sendNotifies' = sendNotifies + 1
    /\ spc' = [spc EXCEPT ![h] = "idle"]
    /\ UNCHANGED <<queue, senders, lock, t, was_last, appended,
                   buffer, results, callPending, waited, orphaned, closeNotifies>>

\* ----------------------------------------------- impl Clone for Sender
\* The handle the clone in progress will return: the first unused one.
NextHandle == CHOOSE c \in Handles :
    spc[c] = "unborn" /\ \A d \in Handles : spc[d] = "unborn" => c <= d

CloneCall(h) ==
    /\ spc[h] = "idle"
    /\ Cardinality({c \in Handles : spc[c] = "unborn"})
         > Cardinality({c \in Handles :
               spc[c] \in {"clone_lock", "clone_inc", "clone_ret"}})
    /\ spc' = [spc EXCEPT ![h] = "clone_lock"]
    /\ UNCHANGED <<queue, senders, lock, t, was_last, appended, rxVars, orphaned, notifyCounts>>

CloneLock(h) ==
    /\ spc[h] = "clone_lock"
    /\ lock = {}
    /\ lock' = {Tx(h)}
    /\ spc' = [spc EXCEPT ![h] = "clone_inc"]
    /\ UNCHANGED <<queue, senders, t, was_last, appended, rxVars, orphaned, notifyCounts>>

\* inner.senders += 1; drop(inner);
CloneIncrement(h) ==
    /\ spc[h] = "clone_inc"
    /\ senders' = Increment(senders)
    /\ lock' = lock \ {Tx(h)}
    /\ spc' = [spc EXCEPT ![h] = "clone_ret"]
    /\ UNCHANGED <<queue, t, was_last, appended, rxVars, orphaned, notifyCounts>>

CloneReturn(h) ==
    /\ spc[h] = "clone_ret"
    /\ spc' = [spc EXCEPT ![h] = "idle", ![NextHandle] = "idle"]
    /\ UNCHANGED <<queue, senders, lock, t, was_last, appended, rxVars, orphaned, notifyCounts>>

\* ------------------------------------------------ impl Drop for Sender
DropCall(h) ==
    /\ spc[h] = "idle"
    /\ spc' = [spc EXCEPT ![h] = "drop_lock"]
    /\ UNCHANGED <<queue, senders, lock, t, was_last, appended, rxVars, orphaned, notifyCounts>>

DropLock(h) ==
    /\ spc[h] = "drop_lock"
    /\ lock = {}
    /\ lock' = {Tx(h)}
    /\ spc' = [spc EXCEPT ![h] = "drop_dec"]
    /\ UNCHANGED <<queue, senders, t, was_last, appended, rxVars, orphaned, notifyCounts>>

\* inner.senders -= 1; let was_last = inner.senders == 0; drop(inner);
DropDecrement(h) ==
    /\ spc[h] = "drop_dec"
    /\ senders' = Decrement(senders)
    /\ was_last' = [was_last EXCEPT ![h] = WasLast(senders')]
    /\ lock' = lock \ {Tx(h)}
    /\ spc' = [spc EXCEPT ![h] = "drop_notify"]
    /\ UNCHANGED <<queue, t, appended, rxVars, orphaned, notifyCounts>>

DropNotify(h) ==
    /\ spc[h] = "drop_notify"
    /\ rpc' = IF was_last[h] THEN NotifyOne(rpc) ELSE rpc
    /\ closeNotifies' = IF was_last[h] THEN closeNotifies + 1 ELSE closeNotifies
    /\ was_last' = [was_last EXCEPT ![h] = FALSE]
    /\ spc' = [spc EXCEPT ![h] = "dead"]
    /\ UNCHANGED <<queue, senders, lock, t, appended,
                   buffer, results, callPending, waited, orphaned, sendNotifies>>

\* -------------------------------------------------------- Receiver::recv
\* The values the Receiver has not returned yet, oldest first.
Pending == buffer \o queue

RecvCall ==
    /\ rpc = "idle"
    /\ NoneCount < MaxNones
    /\ rpc' = "called"
    /\ callPending' = IF Pending = <<>> THEN None ELSE Head(Pending)
    /\ waited' = FALSE
    /\ UNCHANGED <<queue, senders, lock, buffer, spc, t, was_last,
                   appended, results, orphaned, notifyCounts>>

\* if let Some(t) = self.buffer.pop_front() { return Some(t); }
RecvFast ==
    /\ rpc = "called"
    /\ buffer # <<>>
    /\ buffer' = Rest(buffer)
    /\ results' = Append(results, Front(buffer))
    /\ rpc' = "idle"
    /\ callPending' = None
    /\ waited' = FALSE
    /\ UNCHANGED <<queue, senders, lock, spc, t, was_last, appended, orphaned, notifyCounts>>

\* the buffer was empty: self.shared.inner.lock()
RecvLock ==
    /\ rpc = "called"
    /\ buffer = <<>>
    /\ lock = {}
    /\ lock' = {Rx}
    /\ rpc' = "locked"
    /\ UNCHANGED <<queue, senders, buffer, spc, t, was_last,
                   appended, results, callPending, waited, orphaned,
          sendNotifies, closeNotifies>>

\* Some(t) => { swap(&mut self.buffer, &mut inner.queue); return Some(t); }
\* The guard is released by the return.
RecvPop ==
    /\ rpc = "locked"
    /\ queue # <<>>
    /\ buffer' = SwappedBuffer(buffer, Rest(queue))
    /\ queue' = SwappedQueue(buffer, Rest(queue))
    /\ results' = Append(results, Front(queue))
    /\ lock' = lock \ {Rx}
    /\ rpc' = "idle"
    /\ callPending' = None
    /\ waited' = FALSE
    /\ UNCHANGED <<senders, spc, t, was_last, appended, orphaned, notifyCounts>>

\* None if inner.senders == 0 => return None
RecvClosed ==
    /\ rpc = "locked"
    /\ queue = <<>>
    /\ NoSenders(senders)
    /\ results' = Append(results, None)
    /\ lock' = lock \ {Rx}
    /\ rpc' = "idle"
    /\ callPending' = None
    /\ waited' = FALSE
    /\ UNCHANGED <<queue, senders, buffer, spc, t, was_last, appended, orphaned, notifyCounts>>

\* A wait entered without the check of the queue and the count made under
\* the same lock.
RecvWaitUnchecked ==
    /\ rpc = "locked"
    /\ lock' = WaitUnlock(lock)
    /\ rpc' = "parked"
    /\ waited' = TRUE
    /\ UNCHANGED <<queue, senders, buffer, spc, t, was_last,
                   appended, results, callPending, orphaned, notifyCounts>>

\* None => inner = self.shared.available.wait(inner): releases the mutex
\* and parks the thread.
RecvWait ==
    /\ rpc = "locked"
    /\ queue = <<>>
    /\ ~NoSenders(senders)
    /\ lock' = WaitUnlock(lock)
    /\ rpc' = "parked"
    /\ waited' = TRUE
    /\ UNCHANGED <<queue, senders, buffer, spc, t, was_last,
                   appended, results, callPending, orphaned, notifyCounts>>

\* Condvar::wait may return without a notification.
SpuriousWake ==
    /\ rpc = "parked"
    /\ rpc' = "woken"
    /\ UNCHANGED <<queue, senders, lock, buffer, spc, t, was_last,
                   appended, results, callPending, waited, orphaned,
          sendNotifies, closeNotifies>>

\* wait re-acquires the mutex before it returns; the loop then re-checks.
RecvRelock ==
    /\ rpc = "woken"
    /\ lock = {}
    /\ lock' = {Rx}
    /\ rpc' = "locked"
    /\ UNCHANGED <<queue, senders, buffer, spc, t, was_last,
                   appended, results, callPending, waited, orphaned,
          sendNotifies, closeNotifies>>

\* The Receiver goes out of scope between two recv calls: its buffer is
\* dropped with it; the Shared state lives on while a Sender holds it.
RecvDrop ==
    /\ rpc = "idle"
    /\ rpc' = "dropped"
    /\ buffer' = <<>>
    /\ UNCHANGED <<queue, senders, lock, spc, t, was_last,
                   appended, results, callPending, waited, orphaned,
          sendNotifies, closeNotifies>>

\* ------------------------------------------------------------------ next
SenderStep(h) ==
    \/ SendCall(h)
    \/ SendLock(h)
    \/ SendPush(h)
    \/ SendNotify(h)
    \/ CloneCall(h)
    \/ CloneLock(h)
    \/ CloneIncrement(h)
    \/ CloneReturn(h)
    \/ DropCall(h)
    \/ DropLock(h)
    \/ DropDecrement(h)
    \/ DropNotify(h)

ReceiverStep ==
    \/ RecvCall
    \/ RecvFast
    \/ RecvLock
    \/ RecvPop
    \/ RecvClosed
    \/ RecvWait
    \/ SpuriousWake
    \/ RecvRelock
    \/ RecvDrop

Next ==
    \/ \E h \in Handles : SenderStep(h)
    \/ ReceiverStep

Spec == Init /\ [][Next]_vars

\* ---------------------------------------------------------------- fairness
\* The steps of handle h's thread that need no lock: an OS thread that can
\* run keeps running.
SenderProgress(h) ==
    \/ SendPush(h)
    \/ SendNotify(h)
    \/ CloneIncrement(h)
    \/ CloneReturn(h)
    \/ DropDecrement(h)
    \/ DropNotify(h)

\* Mutex::lock on handle h's thread.
SenderAcquire(h) ==
    \/ SendLock(h)
    \/ CloneLock(h)
    \/ DropLock(h)

ReceiverProgress ==
    \/ RecvFast
    \/ RecvPop
    \/ RecvClosed
    \/ RecvWait

\* Mutex::lock on the Receiver's thread, in recv and on the way out of wait.
ReceiverAcquire ==
    \/ RecvLock
    \/ RecvRelock

\* Fair scheduling: a thread that can take a step takes it, and a thread
\* blocked in lock() gets the mutex if it is free again and again.  Calls
\* are the program's choice, and nothing makes a wait return spuriously.
Fairness ==
    /\ \A h \in Handles : WF_vars(SenderProgress(h)) /\ SF_vars(SenderAcquire(h))
    /\ WF_vars(ReceiverProgress)
    /\ SF_vars(ReceiverAcquire)

FairSpec == Spec /\ Fairness

\* Fair scheduling with a Receiver that keeps calling recv while it lives.
RecvFairSpec == FairSpec /\ WF_vars(RecvCall)

\* ------------------------------------------------------------------ claims
\* The bag of the elements of sequence s.
BagOf(s) ==
    [v \in {s[i] : i \in DOMAIN s} |-> Cardinality({i \in DOMAIN s : s[i] = v})]

\* C1: FIFO per sender.  Of two values recv has returned that were sent
\* through the same handle, the one sent first was returned first.
C1_FifoPerSender ==
    \A i, j \in DOMAIN Received :
        (i < j /\ Received[i][1] = Received[j][1]) => Received[i][2] < Received[j][2]

\* Two values of one handle have been returned.
C1_Witness ==
    /\ Len(Received) = 2
    /\ Received[1][1] = Received[2][1]

\* C2: drain before close.  A recv returns None only from a state with
\* producer count zero and both the shared queue and the buffer empty, and
\* every value pushed has by then been returned, in push order.
C2_DrainBeforeClose ==
    [][NoneCount' > NoneCount =>
          /\ senders = 0
          /\ queue = <<>>
          /\ buffer = <<>>
          /\ Received = appended]_vars

\* Two values were sent, all were returned, and then recv returned None.
C2_Witness ==
    /\ Len(results) = 3
    /\ results[3] = None
    /\ Len(Received) = 2

\* C3: closed-channel terminality.  A producer count of zero stays zero and
\* nothing is pushed any more; a recv does not start waiting on the Condvar
\* while the count is zero; after a recv has returned None no recv returns
\* a value.
C3_ClosedIsTerminal ==
    [][/\ senders = 0 => (senders' = 0 /\ appended' = appended)
       /\ (rpc # "parked" /\ rpc' = "parked") => senders # 0
       /\ NoneCount > 0 => Received' = Received]_vars

\* A second recv has returned None after the first.
C3_Witness ==
    /\ NoneCount = 2
    /\ senders = 0

\* C4: no duplication, no fabrication.  The values returned so far are a
\* sub-bag of the values pushed so far.
C4_NoDupNoFabrication == BagOf(Received) \sqsubseteq BagOf(appended)

\* Two senders have each had a value returned.
C4_Witness ==
    /\ Len(Received) = 2
    /\ Received[1][1] # Received[2][1]

\* The set of the elements of sequence s.
Range(s) == {s[i] : i \in DOMAIN s}

\* C5: no loss.  Under fair scheduling, with a Receiver that keeps calling
\* recv, every value that has been pushed is eventually returned by recv,
\* unless the Receiver is dropped first.
C5_EventualDelivery ==
    \A h \in Handles : \A k \in 1..MaxSends :
        (Val(h, k) \in Range(appended) /\ rpc # "dropped")
            ~> (Val(h, k) \in Range(Received) \/ rpc = "dropped")

\* Two senders have each sent one value, both have been returned and
\* nothing is left behind.
C5_Witness ==
    /\ Len(Received) = 2
    /\ {Received[1], Received[2]} = {Val(1, 1), Val(2, 1)}
    /\ Pending = <<>>

\* The result of the latest completed recv.
LastResult == results[Len(results)]

\* C6: close wakes a blocked receiver.  Under fair scheduling, a Receiver
\* that is inside Condvar::wait when the producer count is zero and the
\* shared queue is empty eventually returns None from that recv.
C6_CloseWakesReceiver ==
    (rpc \in {"parked", "woken"} /\ senders = 0 /\ queue = <<>>)
        ~> (rpc = "idle" /\ results # <<>> /\ LastResult = None)

\* A recv that had parked on the Condvar is awake after the close, holds
\* the mutex again and finds the queue empty and the count zero.
C6_Witness ==
    /\ rpc = "locked"
    /\ waited
    /\ senders = 0
    /\ queue = <<>>
    /\ \A h \in Handles : spc[h] \in {"unborn", "dead"}

\* Sequence p is a prefix of sequence s.
IsPrefix(p, s) == Len(p) <= Len(s) /\ SubSeq(s, 1, Len(p)) = p

\* C7: send after the Receiver is dropped.  Dropping the Receiver changes
\* neither the shared queue nor the producer count; once it is dropped, a
\* send's push appends its value at the back of the shared queue, nothing
\* is removed from the queue again, and under fair scheduling every send in
\* progress returns.
C7_SendAfterReceiverDrop ==
    /\ [][(rpc # "dropped" /\ rpc' = "dropped")
              => (queue' = queue /\ senders' = senders)]_vars
    /\ [][rpc = "dropped" =>
              /\ IsPrefix(queue, queue')
              /\ \A h \in Handles :
                    (spc[h] = "send_push" /\ spc'[h] # "send_push")
                        => queue' = Append(queue, t[h])]_vars
    /\ \A h \in Handles :
          (rpc = "dropped" /\ spc[h] \in {"send_lock", "send_push", "send_notify"})
              ~> (spc[h] = "idle")

\* The Receiver is gone, a value pushed after its drop sits in the shared
\* queue and the send that pushed it has returned.
C7_Witness ==
    /\ rpc = "dropped"
    /\ orphaned
    /\ queue # <<>>
    /\ \A h \in Handles : spc[h] \in {"unborn", "idle", "dead"}

\* C8: the order asserted by tests::send_string_across_threads.  When the
\* original Sender (handle 1) and its clone (handle 2) have each sent one
\* value and the Receiver has returned two values, the first is the
\* original's and the second is the clone's.
C8_OriginalThenClone ==
    (Range(appended) = {Val(1, 1), Val(2, 1)} /\ Len(Received) = 2)
        => Received = <<Val(1, 1), Val(2, 1)>>

\* The Sender instances that exist and whose drop has not decremented the
\* count.
LiveSenders == {h \in Handles : spc[h] \notin {"unborn", "drop_notify", "dead"}}

\* The clone calls that have incremented the count and not yet built the
\* Sender they return.
ClonesInFlight == {h \in Handles : spc[h] = "clone_ret"}

\* C9 as stated: in every reachable state the producer count equals the
\* number of Sender instances not yet destroyed.
C9_CountEqualsInstances == senders = Cardinality(LiveSenders)

\* C9 as amended: the producer count equals the number of Sender instances
\* whose drop has not decremented it plus the number of clone calls that
\* have incremented it and not yet built their Sender; it is never
\* negative, the decrement of drop never runs on a count of zero, and the
\* count is zero exactly when no such Sender is left.
C9_CountInvariant ==
    /\ senders = Cardinality(LiveSenders) + Cardinality(ClonesInFlight)
    /\ senders >= 0
    /\ \A h \in Handles : spc[h] = "drop_dec" => senders >= 1
    /\ senders = 0 <=> LiveSenders = {}

\* A clone and the drop of a sibling Sender overlap: one thread has
\* incremented and not yet returned, another has decremented and not yet
\* returned.
C9_Witness ==
    \E h, g \in Handles : spc[h] = "clone_ret" /\ spc[g] = "drop_notify"

\* C10: recv blocks only when there is nothing to deliver and the channel
\* is open.  The Receiver starts waiting on the Condvar only from a state
\* with an empty buffer, an empty shared queue and a producer count of at
\* least 1; a recv that began while a value was pending never waits and
\* returns the value that was the oldest pending one when it began.
C10_BlocksOnlyWhenEmptyAndOpen ==
    [][/\ (rpc # "parked" /\ rpc' = "parked")
            => (buffer = <<>> /\ queue = <<>> /\ senders >= 1)
       /\ callPending # None
            => /\ rpc' # "parked"
               /\ ~waited'
               /\ Len(results') > Len(results)
                    => results' = Append(results, callPending)]_vars

\* A recv that began with two values in the shared queue holds the mutex
\* without having waited, the older of the two at the front of the queue.
C10_Witness ==
    /\ rpc = "locked"
    /\ ~waited
    /\ Len(queue) = 2
    /\ callPending = Front(queue)

\* The positions of a Sender's thread inside send, clone or drop.
InSenderCall ==
    {"send_lock", "send_push", "send_notify",
     "clone_lock", "clone_inc", "clone_ret",
     "drop_lock", "drop_dec", "drop_notify"}

\* C11: send, clone and drop always complete.  Under fair scheduling every
\* send, clone or drop in progress on a Sender returns, whatever the
\* Receiver is doing.
C11_SenderCallsComplete ==
    \A h \in Handles :
        (spc[h] \in InSenderCall) ~> (spc[h] \in {"idle", "dead"})

\* A send has pushed and returned while the Receiver was inside
\* Condvar::wait (which it entered on an empty queue).
C11_Witness ==
    /\ rpc = "woken"
    /\ queue # <<>>
    /\ sendNotifies = Len(appended)
    /\ \A h \in Handles : spc[h] \in {"unborn", "idle", "dead"}

\* C12 as stated: in every reachable state the values returned so far,
\* followed by the local buffer, followed by the shared queue, are the
\* values pushed so far in the order their sends took the lock.
C12_AllAccountedFor == Received \o buffer \o queue = appended

\* C12 as amended: the values returned so far are always a prefix of the
\* values pushed so far in push order, and while the Receiver has not been
\* dropped the values returned, then the buffer, then the shared queue are
\* exactly the values pushed so far in push order.
C12_Linearization ==
    /\ IsPrefix(Received, appended)
    /\ rpc # "dropped" => Received \o buffer \o queue = appended

\* One value has been returned, one waits in the buffer and the Receiver is
\* still there.
C12_Witness ==
    /\ rpc = "idle"
    /\ Len(Received) = 1
    /\ Len(buffer) = 1
    /\ queue = <<>>

\* The threads that are about to call notify_one.
Notifiers ==
    {h \in Handles :
        spc[h] = "send_notify" \/ (spc[h] = "drop_notify" /\ was_last[h])}

\* C13: no lost wakeup.  Whenever the Receiver is parked on the Condvar
\* while the shared queue is non-empty or the producer count is zero, some
\* thread has its notify_one still to issue.
C13_NoLostWakeup ==
    (rpc = "parked" /\ (queue # <<>> \/ senders = 0)) => Notifiers # {}

\* The Receiver is parked, a value has been pushed behind its back and the
\* pushing send has not notified yet.
C13_Witness ==
    /\ rpc = "parked"
    /\ queue # <<>>
    /\ \E h \in Handles : spc[h] = "send_notify"

\* The thread that takes the step, as far as its position shows it.
Acting(th) ==
    \/ th = Rx /\ rpc' # rpc
    \/ \E h \in Handles : th = Tx(h) /\ spc'[h] # spc[h]

\* C14: single-lock mutual exclusion.  At most one thread holds the mutex;
\* every step that reads or writes the shared queue or the producer count
\* (the push of send, the increment of clone, the decrement of drop, and
\* the pop, swap and checks of recv's slow path) is taken by the thread
\* that holds it; the Receiver does not hold it while it is inside
\* Condvar::wait and holds it whenever it checks the queue.
C14_MutualExclusion ==
    /\ [](/\ Cardinality(lock) <= 1
          /\ rpc \in {"parked", "woken"} => Rx \notin lock
          /\ rpc = "locked" => lock = {Rx})
    /\ [][/\ (queue' # queue \/ senders' # senders \/ (rpc = "locked" /\ buffer' # buffer))
               => \E th \in lock : Acting(th)
          /\ \A h \in Handles :
               (spc[h] \in {"send_push", "clone_inc", "drop_dec"} /\ spc'[h] # spc[h])
                   => lock = {Tx(h)}
          /\ (rpc = "locked" /\ rpc' # rpc) => lock = {Rx}]_vars

\* A send holds the mutex while the Receiver is parked on the Condvar and
\* another Sender's thread is blocked in lock().
C14_Witness ==
    /\ rpc = "parked"
    /\ \E h, g \in Handles :
          /\ lock = {Tx(h)}
          /\ spc[h] = "send_push"
          /\ spc[g] \in {"send_lock", "clone_lock", "drop_lock"}

\* C15: batched drain.  When the Receiver, holding the mutex with an empty
\* local buffer, finds the shared queue equal to <<v1, ..., vk>>, k >= 1,
\* its next step returns v1, leaves the shared queue empty and the buffer
\* equal to <<v2, ..., vk>>, and releases the mutex it took once; and the
\* Receiver never holds the mutex with a non-empty buffer.
C15_BatchedDrain ==
    /\ [](rpc \in {"locked", "parked", "woken"} => buffer = <<>>)
    /\ [][(rpc = "locked" /\ queue # <<>> /\ rpc' # rpc) =>
              /\ results' = Append(results, Head(queue))
              /\ queue' = <<>>
              /\ buffer' = Tail(queue)
              /\ lock = {Rx}
              /\ lock' = {}
              /\ rpc' = "idle"]_vars

\* A recv has drained a queue of two values: the first is returned, the
\* second sits in the buffer, the shared queue is empty.
C15_Witness ==
    /\ rpc = "idle"
    /\ Len(appended) = 2
    /\ results = <<appended[1]>>
    /\ buffer = <<appended[2]>>
    /\ queue = <<>>
    /\ lock = {}

\* C16: lock-free fast path.  The step of a recv that began with a
\* non-empty local buffer returns the buffer's front element and removes
\* it, completes the call without touching the mutex or waiting, and leaves
\* the shared queue and the producer count as they are, whatever they are.
C16_LockFreeFastPath ==
    [][(rpc = "called" /\ buffer # <<>> /\ rpc' # rpc) =>
          /\ results' = Append(results, Head(buffer))
          /\ buffer' = Tail(buffer)
          /\ rpc' = "idle"
          /\ lock' = lock
          /\ queue' = queue
          /\ senders' = senders]_vars

\* A recv has begun with a value in its buffer while a Sender's thread
\* holds the mutex: its only step is the fast path.
C16_Witness ==
    /\ rpc = "called"
    /\ buffer # <<>>
    /\ callPending = Head(buffer)
    /\ \E h \in Handles : lock = {Tx(h)}

\* The same with the channel closed: the producer count is zero.
C16_WitnessClosed ==
    /\ rpc = "called"
    /\ buffer # <<>>
    /\ senders = 0

\* What a step of handle h's thread may change of the shared queue and the
\* producer count, by the position it leaves.
SenderFrame(h) ==
    CASE spc[h] = "send_push" ->
            queue' = Append(queue, t[h]) /\ senders' = senders
      [] spc[h] = "clone_inc" ->
            queue' = queue /\ senders' = senders + 1
      [] spc[h] = "drop_dec" ->
            queue' = queue /\ senders' = senders - 1
      [] OTHER ->
            queue' = queue /\ senders' = senders

\* C17: Sender operations have a narrow frame.  The push of send appends
\* exactly its value at the back of the shared queue and leaves the count
\* alone, the increment of clone adds one to the count and the decrement
\* of drop takes one off it, both leaving the queue alone; every other
\* step of send, clone and drop leaves both alone; and none of them ever
\* changes the Receiver's buffer or what recv has returned.
C17_SenderFrame ==
    [][\A h \in Handles :
          spc'[h] # spc[h] => (SenderFrame(h) /\ buffer' = buffer /\ results' = results)]_vars

\* A send, a clone and a drop have all run to their end.
C17_Witness ==
    /\ Len(queue) = 1
    /\ Len(appended) = 1
    /\ senders = 1
    /\ \E h, g \in Handles : h # g /\ spc[h] = "dead" /\ spc[g] = "idle"

\* Every Sender that was ever created has been dropped and its drop has
\* returned.
AllSendersGone == \A h \in Handles : spc[h] \in {"unborn", "dead"}

\* C18: close notification exactly once.  The decrement of a drop sets
\* was_last exactly when it brings the producer count to zero; drop calls
\* notify_one only from a count of zero; the count never leaves zero; so
\* drop never notifies twice, and once every Sender is gone it has
\* notified exactly once.
C18_CloseNotifiedOnce ==
    /\ [](/\ closeNotifies <= 1
          /\ closeNotifies = 1 => senders = 0
          /\ AllSendersGone => closeNotifies = 1)
    /\ [][/\ \A h \in Handles :
                (spc[h] = "drop_dec" /\ spc'[h] # spc[h])
                    => (was_last'[h] <=> senders' = 0)
          /\ closeNotifies' # closeNotifies
                => (senders = 0 /\ closeNotifies' = closeNotifies + 1)
          /\ senders = 0 => senders' = 0]_vars

\* Several Senders have been dropped, all but one of them leaving the
\* count positive, and the one close notification has been issued.
C18_Witness ==
    /\ AllSendersGone
    /\ Cardinality({h \in Handles : spc[h] = "dead"}) >= 2
    /\ closeNotifies = 1

\* The sends that have pushed and not yet notified.
SendsAtNotify == {h \in Handles : spc[h] = "send_notify"}

\* C19: notify after unlock.  A thread that is about to call notify_one,
\* in send or in drop, does not hold the mutex, and does not hold it at
\* the step that issues the notify; the notifies issued by send are as
\* many as the sends that have returned, one for each.
C19_NotifyAfterUnlock ==
    /\ [](/\ \A h \in Handles :
                spc[h] \in {"send_notify", "drop_notify"} => Tx(h) \notin lock
          /\ sendNotifies = Len(appended) - Cardinality(SendsAtNotify))
    /\ [][\A h \in Handles :
            (spc'[h] # spc[h] /\ notifyCounts' # notifyCounts)
                => (Tx(h) \notin lock /\ Tx(h) \notin lock')]_vars

\* One send has returned after its one notify, a second has pushed and is
\* about to notify, and another thread already holds the mutex.
C19_Witness ==
    /\ sendNotifies = 1
    /\ \E h, g \in Handles :
          /\ h # g
          /\ spc[h] = "send_notify"
          /\ lock = {Tx(g)}

====
